---- MODULE Spec2Model ----
(***************************************************************************)
(* A model of baserowdantic: the HTTP client (src/baserow/client.py), the  *)
(* ORM layer (src/baserow/table.py) and the field values                   *)
(* (src/baserow/field.py), together with the Baserow service they talk to. *)
(*                                                                         *)
(* Coroutines advance one await point at a time: a step ends where the     *)
(* code suspends on the network.  The service answers every request that   *)
(* is in flight in any order and with any status it can produce.           *)
(***************************************************************************)
EXTENDS Integers, Sequences, FiniteSets, TLC

\* ------------------------------------------------------------------ bounds
\* The service holds at most MaxPages full pages plus one row.
MaxPages == 1
\* A filter matches every FilterStride-th row of the table.
FilterStride == 2
\* Rows the service inserts or deletes in all.
MaxChanges == 1
\* Longest list handed to create_rows / delete_row.
MaxBatch == 2
\* Most RowLinks in a link field.
MaxLinks == 2
\* Calls of query_linked_rows / cached_query_linked_rows on the field.
MaxCalls == 2

\* The ids of rows and select entries run from 0 to MaxId.
MaxId == 1
\* Most pending changes registered on a field value.
MaxPending == 2
\* Most files in a file field.
MaxFiles == 2
\* Longest chain of builder calls on a filter.
MaxConditions == 2

\* ------------------------------------------------------- program constants
\* Page size of list_all_table_rows.
PageSize == 200
\* Page size of the service when the request names none.
DefaultSize == 100

\* Optional[T]: None is the empty set, a value v is {v}.
None == {}
Some(v) == {v}
The(o) == CHOOSE v \in o : TRUE

MaxRows == MaxPages * PageSize + 1

Min(a, b) == IF a < b THEN a ELSE b

\* Row counts around every page boundary up to MaxRows.
RowCounts ==
    {n \in 0..MaxRows : n % PageSize \in {0, 1, PageSize - 1}}

VARIABLES
    nrows,          \* service: the table holds the rows 1..nrows, in this order
    changes,        \* service: rows inserted or deleted by others during the call
    auth_method,    \* Client._auth_method, set when the client is constructed
    headers_cache,  \* Client.__headers_cache
    op,             \* the operation the caller is running ("idle": none)
    args,           \* its arguments
    pc,             \* where its coroutine stands
    count,          \* list_all_table_rows: count
    total_calls,    \* list_all_table_rows: total_calls
    tasks,          \* requests in flight: 0 the operation's own, 1.. its page tasks;
                    \* on a link field, one per call
    log,            \* the requests the operation sent since it began, in order
    arrived,        \* the gathered tasks whose response has arrived, in that order
    ret,            \* what the operation returned
    err,            \* the exception it raised ("" while none)
    changed,        \* whether the table changed since the operation began
    root,           \* TableLinkField.root: the RowLinks of the field
    linked,         \* the Table class the links point to
    link_cache,     \* TableLinkField._cache: None, or the list it holds
    calls,          \* the calls of query_linked_rows / cached_query_linked_rows
    is_configured,  \* GlobalClient._is_configured
    config,         \* GlobalClient.__url, __token, __email, __password
    instance,       \* GlobalClient._instance: None, or the client's fields
    last,           \* the last call on the process-wide client and its outcome
    new_client,     \* the last Client(url, token, email, password) and its outcome
    obj,            \* a RowLink or SelectEntry value (None before construction)
    out,            \* the outcome of the last operation on it
    pending,        \* BaserowField._pending_changes of the value
    files,          \* FileField.root: the file descriptors of a file field
    file_pending,   \* BaserowField._pending_changes of the file field
    filters,        \* the Filter objects there are, the program's own first
    fret,           \* the Filter the last builder call returned
    fcalls          \* the builder calls made so far, in order

svcVars == <<nrows, changes>>
clientVars == <<auth_method, headers_cache>>
reqVars == <<tasks, log, arrived>>
callVars == <<op, args, pc, count, total_calls, ret, err, changed>>
linkVars == <<root, linked, link_cache, calls>>
globalVars == <<is_configured, config, instance, last, new_client>>
fileVars == <<files, file_pending>>
filterVars == <<filters, fret, fcalls>>
valueVars == <<obj, out, pending, fileVars, filterVars>>

vars == <<svcVars, clientVars, reqVars, callVars, linkVars, globalVars,
          valueVars>>

\* ------------------------------------------------------------------ inputs
AuthMethods == {"DATABASE_TOKEN", "JWT"}

\* A Table subclass: whether table_id is an int, table_name a str,
\* populate_by_name in model_config, and whether Table.client is assigned.
TableClass(id, name, populate, client) ==
    [table_id |-> id, table_name |-> name, populate_by_name |-> populate,
     client |-> client]

NoClass == TableClass(TRUE, TRUE, TRUE, FALSE)

\* The well-configured class with each client, and one class for each check
\* of valid_configuration that can fail.
TableClasses ==
    {TableClass(TRUE, TRUE, TRUE, c) : c \in BOOLEAN}
        \cup {TableClass(FALSE, TRUE, TRUE, TRUE),
              TableClass(TRUE, FALSE, TRUE, TRUE),
              TableClass(TRUE, TRUE, FALSE, TRUE)}

Filters == {None, Some("stride")}
\* order_by: no list, or the rows by descending id and then by name.
OrderBys == {None, Some(<<"-id", "name">>)}
Pages == {None, Some(0), Some(2)}
Sizes == {None, Some(-1), Some(PageSize)}

NoArgs ==
    [cls |-> NoClass, filter |-> None, order_by |-> None, page |-> None,
     size |-> None,
     items |-> -1, row |-> -1, name |-> None, register |-> TRUE,
     own_client |-> TRUE]

NoRet == [kind |-> "", count |-> -1, results |-> <<>>]

\* --------------------------------------------------------------- the service
Matches(f, r) == f = None \/ r % FilterStride = 0

\* The rows of an n-row table that match the filter, in table order.
Matching(f, n) == SelectSeq([i \in 1..n |-> i], LAMBDA r : Matches(f, r))

Reverse(s) == [i \in 1..Len(s) |-> s[Len(s) + 1 - i]]

\* The service sorts by the first field of the order_by parameter: the
\* rows by descending id are the table backwards.
Ordered(param, rows) ==
    IF param = Some("-id,name") THEN Reverse(rows) ELSE rows

PageOf(rq) == IF rq.page = None THEN 1 ELSE The(rq.page)
SizeOf(rq) == IF rq.size = None THEN DefaultSize ELSE The(rq.size)

\* The service serves page p >= 1 of size 1..PageSize; a page after the first
\* that starts behind the last row is an invalid page.
ListValid(rq, n) ==
    /\ SizeOf(rq) \in 1..PageSize
    /\ PageOf(rq) >= 1
    /\ \/ PageOf(rq) = 1
       \/ (PageOf(rq) - 1) * SizeOf(rq) < Len(Matching(rq.filter, n))

ListBody(rq, n) ==
    LET rows == Ordered(rq.order_by, Matching(rq.filter, n))
        lo == (PageOf(rq) - 1) * SizeOf(rq) + 1
        hi == Min(PageOf(rq) * SizeOf(rq), Len(rows))
    IN  [count |-> Len(rows), results |-> SubSeq(rows, lo, hi)]

NoBody == [count |-> -1, results |-> <<>>]

\* The body of a response that is no success: error and detail on 400,
\* some text otherwise.
ErrorBody(s) ==
    IF s = 400
    THEN [error |-> "ERROR_REQUEST_BODY_VALIDATION", detail |-> "detail",
          text |-> "{\"error\": ..., \"detail\": ...}"]
    ELSE [error |-> "", detail |-> "", text |-> "<html>"]

NoException ==
    [name |-> "", status_code |-> 0, error |-> "", detail |-> "", body |-> ""]

\* What the service can answer to a request while it holds n rows.
ValidRequest(rq, n) ==
    CASE rq.kind = "list" -> ListValid(rq, n)
      [] rq.kind = "batch_create" -> rq.items >= 1
      [] rq.kind = "batch_delete" -> rq.items >= 1 /\ rq.items <= n
      [] rq.kind \in {"delete", "get_row", "update_row"} -> rq.row \in 1..n
      [] OTHER -> TRUE

\* 200 and 204 are the answers to a request the service accepts: 204 to the
\* requests that delete, 200 to the others.
StatusCodes == {200, 204, 400, 500}

Deletes(rq) == rq.kind \in {"delete", "batch_delete"}

\* The rows a request inserts or deletes when the service accepts it.
Cost(rq) ==
    CASE rq.kind \in {"batch_create", "batch_delete"} -> rq.items
      [] rq.kind = "delete" -> 1
      [] OTHER -> 0

Accepts(rq, n) ==
    /\ ValidRequest(rq, n)
    /\ changes + Cost(rq) <= MaxChanges
    /\ rq.kind = "batch_create" => n + rq.items <= MaxRows

Answers(rq, n) ==
    {s \in StatusCodes :
        /\ s = 200 => Accepts(rq, n) /\ ~Deletes(rq)
        /\ s = 204 => Accepts(rq, n) /\ Deletes(rq)}

\* A batch create answers with the new rows, get_row with the row.
BodyOf(rq, n) ==
    CASE rq.kind = "list" -> ListBody(rq, n)
      [] rq.kind = "batch_create" ->
            [count |-> -1, results |-> [k \in 1..rq.items |-> n + k]]
      [] rq.kind = "get_row" -> [count |-> -1, results |-> <<rq.row>>]
      [] OTHER -> NoBody

\* The rows the table holds after the service has answered rq with status s.
RowsAfter(rq, s, n) ==
    CASE s = 200 /\ rq.kind = "batch_create" -> n + rq.items
      [] s = 204 /\ rq.kind = "batch_delete" -> n - rq.items
      [] s = 204 /\ rq.kind = "delete" -> n - 1
      [] OTHER -> n


\* ---------------------------------------------------------------- requests
Request(kind, filter, page, size, items, row, typed) ==
    [kind |-> kind, filter |-> filter, order_by |-> None, page |-> page,
     size |-> size, items |-> items, row |-> row, typed |-> typed]

ListRequest(filter, page, size) ==
    Request("list", filter, page, size, -1, -1, TRUE)

RECURSIVE Join(_, _)
Join(items, k) ==
    IF k > Len(items) THEN ""
    ELSE IF k = Len(items) THEN items[k]
    ELSE items[k] \o "," \o Join(items, k + 1)

\* _list_to_str: ",".join(items)
list_to_str(items) == Join(items, 1)

\* (mutant) The order_by parameter is left out.
ListParamsUnordered(filter, order_by, page, size) ==
    ListRequest(filter, page, size)

\* The parameters of list_table_rows: each one that is not None goes into
\* the request, order_by as one comma-separated string.
ListParams(filter, order_by, page, size) ==
    [ListRequest(filter, page, size) EXCEPT
        !.order_by = IF order_by # None
                     THEN Some(list_to_str(The(order_by))) ELSE None]

GetRowRequest(row) == Request("get_row", None, None, None, -1, row, TRUE)

TokenAuthRequest == Request("token-auth", None, None, None, -1, -1, TRUE)

\* call is the call on a link field the task belongs to, 0 for a task of
\* the client operation.
NewTask(rq) ==
    [rq |-> rq, st |-> "new", err |-> "", status |-> 0, body |-> NoBody,
     call |-> 0, exc |-> NoException]

LogEntry(rq, auth) == [rq |-> rq, auth |-> auth]

\* (mutant) __headers without its cache: a JWT client logs in every time.
NeedsTokenAuthUncached == auth_method = "JWT"

\* Client.__headers: the cached header if there is one; a token client builds
\* and caches "Token <t>"; a JWT client has to await token_auth first.
NeedsTokenAuth == headers_cache = None /\ auth_method = "JWT"

AuthHeader == IF auth_method = "DATABASE_TOKEN" THEN "Token" ELSE "JWT"

\* Client._request up to its first suspension: the task either waits for
\* token_auth or has its request on the wire.
StartedTask(t) ==
    [t EXCEPT !.st = IF NeedsTokenAuth THEN "auth" ELSE "sent"]

\* The log holds the requests of the client operation; a call on a link
\* field keeps the rows it asked for in its own record.
Sent(t, rq, auth) ==
    IF t.call = 0 THEN Append(log, LogEntry(rq, auth)) ELSE log

StartedLog(t) ==
    IF NeedsTokenAuth
    THEN Sent(t, TokenAuthRequest, "none")
    ELSE Sent(t, t.rq, AuthHeader)

StartedCache(t) ==
    IF NeedsTokenAuth THEN headers_cache ELSE Some(AuthHeader)

\* (mutant) Every status but 200 raises, and only 400 is told apart.
ErrorOfNoContent(rq, status) ==
    CASE status = 400 -> "BaserowError"
      [] status # 200 -> "UnspecifiedBaserowError"
      [] OTHER -> ""

\* Client._request: the exception a response status raises ("" for none).
\* _typed_request turns a missing result into a ValueError.
ErrorOf(rq, status) ==
    CASE status = 400 -> "BaserowError"
      [] status = 204 -> IF rq.typed THEN "ValueError" ELSE ""
      [] status # 200 -> "UnspecifiedBaserowError"
      [] OTHER -> ""

\* The exception a response raises, with what it carries:
\* BaserowError(rsp.status, err.error, err.detail) and
\* UnspecifiedBaserowError(rsp.status, await rsp.text()).
ExceptionOf(rq, status) ==
    CASE ErrorOf(rq, status) = "BaserowError" ->
            [name |-> "BaserowError", status_code |-> status,
             error |-> ErrorBody(status).error,
             detail |-> ErrorBody(status).detail, body |-> ""]
      [] ErrorOf(rq, status) = "UnspecifiedBaserowError" ->
            [name |-> "UnspecifiedBaserowError", status_code |-> status,
             error |-> "", detail |-> "", body |-> ErrorBody(status).text]
      [] OTHER -> [NoException EXCEPT !.name = ErrorOf(rq, status)]

NoTasks == (0 :> [NewTask(TokenAuthRequest) EXCEPT !.st = "ok"])

Pending(t) == t.st \in {"new", "auth", "sent"}

\* asyncio.gather sees its tasks complete in the order of their responses.
Arrival(i) == IF pc = "gather" THEN Append(arrived, i) ELSE arrived

\* A task created by asyncio.create_task runs up to its first suspension;
\* the event loop starts the tasks in the order of their creation.
Start(i) ==
    /\ i \in DOMAIN tasks
    /\ tasks[i].st = "new"
    /\ \A j \in DOMAIN tasks : j < i => tasks[j].st # "new"
    /\ tasks' = [tasks EXCEPT ![i] = StartedTask(tasks[i])]
    /\ log' = StartedLog(tasks[i])
    /\ headers_cache' = StartedCache(tasks[i])
    /\ UNCHANGED <<svcVars, auth_method, arrived, callVars, linkVars,
                   globalVars, valueVars>>

\* The service answers token_auth; on 200 __headers caches "JWT <token>"
\* and _request sends the request itself.
TokenAuthResponse(i) ==
    /\ i \in DOMAIN tasks
    /\ tasks[i].st = "auth"
    /\ \E s \in Answers(TokenAuthRequest, nrows) :
        IF ErrorOf(TokenAuthRequest, s) = ""
        THEN /\ headers_cache' = Some("JWT")
             /\ log' = Sent(tasks[i], tasks[i].rq, "JWT")
             /\ tasks' = [tasks EXCEPT ![i].st = "sent"]
             /\ UNCHANGED arrived
        ELSE /\ tasks' = [tasks EXCEPT ![i].st = "err", ![i].status = s,
                                       ![i].err = ErrorOf(TokenAuthRequest, s),
                                       ![i].exc = ExceptionOf(TokenAuthRequest, s)]
             /\ arrived' = Arrival(i)
             /\ UNCHANGED <<headers_cache, log>>
    /\ UNCHANGED <<svcVars, auth_method, callVars, linkVars, globalVars,
                   valueVars>>

\* The task's state once the service has answered its request with status s.
Answered(t, s, n) ==
    [t EXCEPT !.st = IF ErrorOf(t.rq, s) = "" THEN "ok" ELSE "err",
              !.status = s,
              !.err = ErrorOf(t.rq, s),
              !.exc = ExceptionOf(t.rq, s),
              !.body = IF s = 200 THEN BodyOf(t.rq, n) ELSE NoBody]

\* The service answers a request that is on the wire.
Response(i) ==
    /\ i \in DOMAIN tasks
    /\ tasks[i].st = "sent"
    /\ \E s \in Answers(tasks[i].rq, nrows) :
        /\ tasks' = [tasks EXCEPT ![i] = Answered(tasks[i], s, nrows)]
        /\ nrows' = RowsAfter(tasks[i].rq, s, nrows)
        /\ changes' = IF s \in {200, 204} THEN changes + Cost(tasks[i].rq)
                                          ELSE changes
    /\ arrived' = Arrival(i)
    /\ UNCHANGED <<clientVars, log, callVars, linkVars, globalVars, valueVars>>

\* Another user of the service inserts a row at the end of the table, or
\* deletes the last one, while the operation is running.
ServiceChange ==
    /\ pc \notin {"idle", "done", "raised"}
    /\ changes < MaxChanges
    /\ \E d \in {-1, 1} :
        /\ nrows + d \in 0..MaxRows
        /\ nrows' = nrows + d
    /\ changes' = changes + 1
    /\ changed' = TRUE
    /\ UNCHANGED <<clientVars, reqVars, op, args, pc, count, total_calls, ret,
                   err, linkVars, globalVars, valueVars>>

\* ------------------------------------------------------- calling an operation
\* The coroutine's own request goes out as task 0.
Await(rq, nextpc) ==
    /\ tasks' = (0 :> StartedTask(NewTask(rq)))
    /\ log' = StartedLog(NewTask(rq))
    /\ headers_cache' = StartedCache(NewTask(rq))
    /\ pc' = nextpc
    /\ ret' = NoRet
    /\ err' = ""

Raise(e) ==
    /\ pc' = "raised"
    /\ err' = e
    /\ ret' = NoRet
    /\ UNCHANGED <<tasks, log, headers_cache>>

Return(r) ==
    /\ pc' = "done"
    /\ err' = ""
    /\ ret' = r
    /\ UNCHANGED <<tasks, log, headers_cache>>

RowResponse(c, results) ==
    [kind |-> "RowResponse", count |-> c, results |-> results]

BatchResponse(items) ==
    [kind |-> "BatchResponse", count |-> -1, results |-> items]

NoneResult == [kind |-> "None", count |-> -1, results |-> <<>>]

\* Client.list_table_rows: one list request.
list_table_rows(filter, order_by, page, size) ==
    Await(ListParams(filter, order_by, page, size), "request")

\* Client.table_row_count: a list request of size 1 with the filter it is
\* given.
table_row_count(filter) ==
    Await(ListParams(filter, None, None, Some(1)), "probe")

\* Client.list_all_table_rows, up to its first suspension: it asks for the
\* row count without handing its filter on.
list_all_table_rows(filter, order_by) ==
    table_row_count(None)

\* Client.create_rows: an empty list returns an empty BatchResponse at once.
create_rows(n) ==
    IF n = 0
    THEN Return(BatchResponse(<<>>))
    ELSE Await(Request("batch_create", None, None, None, n, -1, TRUE),
               "request")

\* Client.delete_row: an int deletes that row, a list goes to batch-delete.
delete_row(row, n) ==
    IF n = -1
    THEN Await(Request("delete", None, None, None, -1, row, FALSE), "request")
    ELSE Await(Request("batch_delete", None, None, None, n, -1, FALSE),
               "request")

\* (mutant) The decorator lets every client through.
jwt_only_unchecked == ""

\* jwt_only: the exception the decorator raises before the method is
\* called ("" if none).
jwt_only_error ==
    IF auth_method # "JWT" THEN "JWTAuthRequiredError" ELSE ""

DatabaseTablesRequest ==
    Request("list_database_tables", None, None, None, -1, -1, TRUE)

CreateDatabaseTableRequest ==
    Request("create_database_table", None, None, None, -1, -1, TRUE)

\* Client.list_database_tables behind jwt_only.
list_database_tables ==
    IF jwt_only_error # ""
    THEN Raise(jwt_only_error)
    ELSE Await(DatabaseTablesRequest, "request")

\* Client.create_database_table behind jwt_only.
create_database_table ==
    IF jwt_only_error # ""
    THEN Raise(jwt_only_error)
    ELSE Await(CreateDatabaseTableRequest, "request")

\* (mutant) The decorator without its look at the model config.
valid_configuration_of_ids(cls) ==
    CASE ~cls.table_id -> "InvalidTableConfiguration"
      [] ~cls.table_name -> "InvalidTableConfiguration"
      [] OTHER -> ""

\* valid_configuration: the exception the decorator raises ("" if none).
valid_configuration(cls) ==
    CASE ~cls.table_id -> "InvalidTableConfiguration"
      [] ~cls.table_name -> "InvalidTableConfiguration"
      [] ~cls.populate_by_name -> "InvalidTableConfiguration"
      [] OTHER -> ""

\* Table.__req_client: GlobalClient has no attribute is_configured, so the
\* lookup raises whenever the class has no client of its own.
req_client_error(cls) ==
    IF ~cls.client THEN "AttributeError" ELSE ""

\* Python truth value of an Optional[int].
Truthy(o) == o # None /\ o # Some(0)

\* The check of Table.query that rejects a page together with size=-1.
PageWithAllRows(p, s) == s = Some(-1) /\ Truthy(p)

Begin(name, a) ==
    /\ pc = "idle"
    /\ op' = name
    /\ args' = a
    /\ changed' = FALSE
    /\ arrived' = <<>>
    /\ UNCHANGED <<svcVars, auth_method, count, total_calls, linkVars,
                   globalVars, valueVars>>

\* Table.query(filter, order_by, page, size) on the class cls.
Query ==
    \E cls \in TableClasses, f \in Filters, o \in OrderBys, p \in Pages,
       s \in Sizes :
        /\ Begin("Table.query",
                 [NoArgs EXCEPT !.cls = cls, !.filter = f, !.order_by = o,
                                !.page = p, !.size = s])
        /\ IF valid_configuration(cls) # ""
           THEN Raise(valid_configuration(cls))
           ELSE IF PageWithAllRows(p, s)
           THEN Raise("ValueError")
           ELSE IF req_client_error(cls) # ""
           THEN Raise(req_client_error(cls))
           ELSE IF s # None /\ s = Some(-1)
           THEN list_all_table_rows(f, o)
           ELSE list_table_rows(f, o, p, s)

\* Table.by_id(row_id) on the class cls: the first row, or a row behind the
\* last one.
ById ==
    \E cls \in TableClasses, r \in {1, nrows + 1} :
        /\ Begin("Table.by_id", [NoArgs EXCEPT !.cls = cls, !.row = r])
        /\ IF valid_configuration(cls) # ""
           THEN Raise(valid_configuration(cls))
           ELSE IF req_client_error(cls) # ""
           THEN Raise(req_client_error(cls))
           ELSE Await(GetRowRequest(r), "request")

\* Client.list_all_table_rows(table_id, user_field_names, filter=filter).
ListAll ==
    \E f \in Filters, o \in OrderBys :
        /\ Begin("list_all_table_rows",
                 [NoArgs EXCEPT !.filter = f, !.order_by = o])
        /\ list_all_table_rows(f, o)

\* Client.create_rows(table_id, data, user_field_names), len(data) = n.
CreateRows ==
    \E n \in 0..MaxBatch :
        /\ Begin("create_rows", [NoArgs EXCEPT !.items = n])
        /\ create_rows(n)

\* Client.delete_row(table_id, row_id): row_id the last row or a row behind
\* it, or a list of n ids.
DeleteRow ==
    \/ \E r \in {nrows, nrows + 1} :
        /\ Begin("delete_row", [NoArgs EXCEPT !.row = r])
        /\ delete_row(r, -1)
    \/ \E n \in 0..MaxBatch :
        /\ Begin("delete_row", [NoArgs EXCEPT !.items = n])
        /\ delete_row(-1, n)

\* Client.list_database_tables(database_id).
ListDatabaseTables ==
    /\ Begin("list_database_tables", NoArgs)
    /\ list_database_tables

\* Client.create_database_table(database_id, name).
CreateDatabaseTable ==
    /\ Begin("create_database_table", NoArgs)
    /\ create_database_table

\* ----------------------------------------------- list_all_table_rows, resumed
\* rsl is the first response, extended by the results of the others in the
\* order of the list gather returned.
RECURSIVE Extend(_, _, _)
Extend(rsl, responses, k) ==
    IF k > Len(responses)
    THEN rsl
    ELSE Extend([rsl EXCEPT !.results = rsl.results \o responses[k].results],
                responses, k + 1)

Merge(responses) ==
    IF responses = <<>>
    THEN RowResponse(0, <<>>)
    ELSE Extend(RowResponse(responses[1].count, responses[1].results),
                responses, 2)

\* (mutant) The results in the order in which the responses arrived.
GatheredAsArrived ==
    LET order == SelectSeq(arrived, LAMBDA i : i >= 1)
    IN  [k \in 1..total_calls |-> tasks[order[k]].body]

\* asyncio.gather returns the results in the order of the awaitables.
Gathered == [k \in 1..total_calls |-> tasks[k].body]

\* (mutant) The page count rounded down.
TotalCallsRoundedDown(c) == c \div 200

TotalCalls(c) == (c + 200 - 1) \div 200

PageTasks(n) ==
    [k \in 0..n |->
        IF k = 0 THEN tasks[0]
        ELSE NewTask(ListParams(args.filter, args.order_by, Some(k),
                                Some(PageSize)))]

\* What the operation hands to its caller: Table.query returns rsl.results.
Result(r) ==
    IF op = "Table.query"
    THEN [kind |-> "list", count |-> -1, results |-> r.results]
    ELSE r

\* table_row_count returned: the page tasks are created and gathered.
ProbeDone ==
    /\ pc = "probe"
    /\ ~Pending(tasks[0])
    /\ IF tasks[0].st = "err"
       THEN /\ Raise(tasks[0].err)
            /\ UNCHANGED <<count, total_calls>>
       ELSE /\ count' = tasks[0].body.count
            /\ total_calls' = TotalCalls(tasks[0].body.count)
            /\ IF TotalCalls(tasks[0].body.count) = 0
               THEN Return(Result(Merge(<<>>)))
               ELSE /\ tasks' = PageTasks(TotalCalls(tasks[0].body.count))
                    /\ pc' = "gather"
                    /\ UNCHANGED <<log, headers_cache, ret, err>>
    /\ UNCHANGED <<svcVars, auth_method, arrived, op, args, changed, linkVars,
                   globalVars, valueVars>>

\* gather raises the exception of a task that failed.
GatherRaise ==
    /\ pc = "gather"
    /\ \E k \in 1..total_calls :
        /\ tasks[k].st = "err"
        /\ Raise(tasks[k].err)
    /\ UNCHANGED <<svcVars, auth_method, arrived, op, args, count, total_calls,
                   changed, linkVars, globalVars, valueVars>>

\* (mutant) gather returns what the tasks that succeeded have brought.
GatherDonePartial ==
    /\ pc = "gather"
    /\ \A k \in 1..total_calls : ~Pending(tasks[k])
    /\ Return(Result(Merge(Gathered)))
    /\ UNCHANGED <<svcVars, auth_method, arrived, op, args, count, total_calls,
                   changed, linkVars, globalVars, valueVars>>

\* gather returns once every task has its response.
GatherDone ==
    /\ pc = "gather"
    /\ \A k \in 1..total_calls : tasks[k].st = "ok"
    /\ Return(Result(Merge(Gathered)))
    /\ UNCHANGED <<svcVars, auth_method, arrived, op, args, count, total_calls,
                   changed, linkVars, globalVars, valueVars>>

\* What a single request of an operation returns to it.
Returned(t) ==
    CASE t.rq.kind = "list" -> RowResponse(t.body.count, t.body.results)
      [] t.rq.kind = "batch_create" -> BatchResponse(t.body.results)
      [] t.rq.kind = "get_row" ->
            [kind |-> "row", count |-> -1, results |-> t.body.results]
      [] t.rq.kind = "list_database_tables" ->
            [NoneResult EXCEPT !.kind = "DatabaseTablesResponse"]
      [] t.rq.kind = "create_database_table" ->
            [NoneResult EXCEPT !.kind = "DatabaseTableResponse"]
      [] OTHER -> NoneResult

\* (mutant) A request that failed is sent again.
RequestDoneRetrying ==
    /\ pc = "request"
    /\ ~Pending(tasks[0])
    /\ IF tasks[0].st = "err"
       THEN Await(tasks[0].rq, "request")
       ELSE Return(Result(Returned(tasks[0])))
    /\ UNCHANGED <<svcVars, auth_method, arrived, op, args, count, total_calls,
                   changed, linkVars, globalVars, valueVars>>

\* The request of an operation that sends one request returned.
RequestDone ==
    /\ pc = "request"
    /\ ~Pending(tasks[0])
    /\ IF tasks[0].st = "err"
       THEN Raise(tasks[0].err)
       ELSE Return(Result(Returned(tasks[0])))
    /\ UNCHANGED <<svcVars, auth_method, arrived, op, args, count, total_calls,
                   changed, linkVars, globalVars, valueVars>>

\* The caller has its result and goes on to the next operation, once the
\* tasks of this one have run to their end.
Finish ==
    /\ pc \in {"done", "raised"}
    /\ \A i \in DOMAIN tasks : ~Pending(tasks[i])
    /\ pc' = "idle"
    /\ op' = "idle"
    /\ args' = NoArgs
    /\ count' = 0
    /\ total_calls' = 0
    /\ tasks' = NoTasks
    /\ log' = <<>>
    /\ arrived' = <<>>
    /\ ret' = NoRet
    /\ err' = ""
    /\ changed' = FALSE
    /\ UNCHANGED <<svcVars, clientVars, linkVars, globalVars, valueVars>>

InitClient ==
    /\ changes = 0
    /\ auth_method \in AuthMethods
    /\ headers_cache = None
    /\ tasks = NoTasks
    /\ log = <<>>
    /\ arrived = <<>>

InitCall ==
    /\ op = "idle"
    /\ args = NoArgs
    /\ pc = "idle"
    /\ count = 0
    /\ total_calls = 0
    /\ ret = NoRet
    /\ err = ""
    /\ changed = FALSE

NoCall ==
    [op |-> "", pc |-> "idle", i |-> 0, rsl |-> <<>>, ret |-> None,
     err |-> "", asked |-> <<>>, hit |-> FALSE, after |-> {}]

\* The parts of the state a specification does not use stay as they are here.
NoLink ==
    /\ root = <<>>
    /\ linked = NoClass
    /\ link_cache = None
    /\ calls = [c \in 1..MaxCalls |-> NoCall]

\* GlobalClient as the class statement leaves it.
NoGlobal ==
    /\ is_configured = FALSE
    /\ config = [url |-> "", token |-> None, email |-> None, password |-> None]
    /\ instance = None
    /\ last = [op |-> "", url |-> "", err |-> "", old_url |-> "",
               configured |-> FALSE,
               before |-> [url |-> "", token |-> None, email |-> None,
                           password |-> None]]
    /\ new_client = None

NoValue ==
    /\ obj = None
    /\ out = <<>>
    /\ pending = <<>>
    /\ files = <<>>
    /\ file_pending = <<>>
    /\ filters = <<>>
    /\ fret = 0
    /\ fcalls = <<>>

Init ==
    /\ nrows \in RowCounts
    /\ InitClient
    /\ InitCall
    /\ NoLink
    /\ NoGlobal
    /\ NoValue

StartTask == \E i \in DOMAIN tasks : Start(i)
AuthAnswer == \E i \in DOMAIN tasks : TokenAuthResponse(i)
Answer == \E i \in DOMAIN tasks : Response(i)

Next ==
    \/ Query
    \/ ById
    \/ ListAll
    \/ CreateRows
    \/ DeleteRow
    \/ ListDatabaseTables
    \/ CreateDatabaseTable
    \/ StartTask
    \/ AuthAnswer
    \/ Answer
    \/ ServiceChange
    \/ ProbeDone
    \/ GatherRaise
    \/ GatherDone
    \/ RequestDone
    \/ Finish

\* The client, the Table queries built on it, and the service.
Spec == Init /\ [][Next]_vars


\* ------------------------------------------------- properties of the client
\* The operation went through list_all_table_rows.
ListAllCall ==
    \/ op = "list_all_table_rows"
    \/ op = "Table.query" /\ args.size = Some(-1)

Ceil(n, d) == IF n % d = 0 THEN n \div d ELSE n \div d + 1

\* The list requests the service received, in the order it received them.
ListRequests ==
    LET l == SelectSeq(log, LAMBDA e : e.rq.kind = "list")
    IN  [k \in 1..Len(l) |-> l[k].rq]

\* The probe and the page requests of a table with m rows to fetch.
ProbeAndPages(f, m) ==
    <<ListRequest(None, None, Some(1))>>
        \o [k \in 1..Ceil(m, PageSize) |->
                ListParams(f, args.order_by, Some(k), Some(PageSize))]

\* C1: on a table of n rows that does not change during the call,
\* list_all_table_rows without a filter sends one probe of size 1, then the
\* pages 1..ceil(n/200) once each with size 200, and returns n items; for
\* n = 0 it sends no page request and returns count 0 and no items.
C1_FetchAllPages ==
    (pc = "done" /\ ListAllCall /\ args.filter = None /\ ~changed) =>
        /\ ListRequests = ProbeAndPages(None, nrows)
        /\ Len(ret.results) = nrows
        /\ nrows = 0 =>
            /\ Len(ListRequests) = 1
            /\ ret.results = <<>>
            /\ op = "list_all_table_rows" => ret.count = 0

C1_Witness ==
    /\ pc = "done"
    /\ op = "list_all_table_rows"
    /\ args.filter = None
    /\ ~changed
    /\ nrows > PageSize
    /\ Len(ret.results) = nrows

\* The results of the pages 1..k, page after page.
RECURSIVE PagesUpTo(_)
PagesUpTo(k) ==
    IF k = 0 THEN <<>> ELSE PagesUpTo(k - 1) \o tasks[k].body.results

\* Page i answered before page j.
ArrivedBefore(i, j) ==
    \E a, b \in 1..Len(arrived) : a < b /\ arrived[a] = i /\ arrived[b] = j

\* C2: the items list_all_table_rows returns are the results of page 1, then
\* of page 2, and so on, in whatever order the page responses arrived.
C2_PageOrder ==
    (pc = "done" /\ ListAllCall) => ret.results = PagesUpTo(total_calls)

C2_Witness ==
    /\ pc = "done"
    /\ ListAllCall
    /\ total_calls >= 2
    /\ ArrivedBefore(2, 1)
    /\ ret.results = PagesUpTo(total_calls)
    /\ Len(tasks[2].body.results) > 0

\* C3 (as claimed): list_all_table_rows with a filter returns the rows that
\* match it, after the probe and ceil(m/200) page requests for m matching rows.
C3_FilteredFetchAll ==
    (pc = "done" /\ ListAllCall /\ args.filter # None /\ ~changed) =>
        /\ Len(ListRequests) = 1 + Ceil(Len(Matching(args.filter, nrows)), PageSize)
        /\ ret.results = Matching(args.filter, nrows)

\* C4 (as claimed): Table.query with size=-1 and a page that is not None
\* raises a ValueError before any request is sent.
C4_PageWithAllRowsRejected ==
    (/\ op = "Table.query"
     /\ valid_configuration(args.cls) = ""
     /\ args.cls.client
     /\ args.size = Some(-1)
     /\ args.page # None) =>
        pc = "raised" /\ err = "ValueError" /\ log = <<>>

\* C5 (as claimed): create_rows with an empty list and delete_row with an
\* empty list of ids return an empty result and send no request.
C5_EmptyBatchSendsNothing ==
    (op \in {"create_rows", "delete_row"} /\ args.items = 0) =>
        pc = "done" /\ log = <<>> /\ ret.results = <<>>


\* The tasks whose request the service has answered.
AnsweredTasks == {i \in DOMAIN tasks : tasks[i].status # 0}

C13_NoClientAvailable ==
    (/\ op = "Table.query"
     /\ pc # "idle"
     /\ valid_configuration(args.cls) = ""
     /\ ~PageWithAllRows(args.page, args.size)
     /\ ~args.cls.client
     /\ ~is_configured) =>
        /\ pc = "raised"
        /\ err = "NoClientAvailableError"
        /\ log = <<>>

\* The operations behind jwt_only.
JwtOnlyOps == {"list_database_tables", "create_database_table"}

\* The operation's own request is in the log, sent with the JWT header.
OwnRequestSent ==
    \E k \in 1..Len(log) : log[k] = LogEntry(tasks[0].rq, "JWT")

\* The operation waits for token_auth, or token_auth has failed.
LoginOpen ==
    /\ log # <<>>
    /\ log[Len(log)].rq = TokenAuthRequest
    /\ tasks[0].st \in {"auth", "err"}

NewlySent == {k \in 1..Len(log') : k > Len(log)}

\* C15: every request of a token client carries "Token <t>" and none goes
\* to token-auth; a JWT client without a cached header sends nothing but the
\* token-auth request, each of its other requests carries "JWT <token>", and
\* once the header is cached every request it sends carries that header and
\* none goes to token-auth.
C15_AuthHeaders ==
    /\ [](auth_method = "DATABASE_TOKEN" =>
            \A k \in 1..Len(log) :
                log[k].auth = "Token" /\ log[k].rq # TokenAuthRequest)
    /\ [](auth_method = "JWT" =>
            \A k \in 1..Len(log) :
                IF log[k].rq = TokenAuthRequest
                THEN log[k].auth = "none"
                ELSE log[k].auth = "JWT" /\ headers_cache = Some("JWT"))
    /\ [][(auth_method = "JWT" /\ headers_cache # None) =>
            /\ headers_cache' = headers_cache
            /\ \A k \in NewlySent :
                    log'[k].auth = "JWT" /\ log'[k].rq # TokenAuthRequest]_vars

\* A JWT client with a cached header has sent the three requests of a
\* list_all_table_rows, none of them a login.
C15_Witness ==
    /\ auth_method = "JWT"
    /\ headers_cache = Some("JWT")
    /\ Len(log) = 3
    /\ \A k \in 1..3 : log[k].auth = "JWT"

\* Table.query got past its checks: the class is well configured and has a
\* client of its own.
QueryRuns ==
    /\ op = "Table.query"
    /\ pc # "idle"
    /\ valid_configuration(args.cls) = ""
    /\ args.cls.client

\* The list request that carries the arguments of the query with page p and
\* size s: the order_by list as one comma-separated string.
QueryRequest(p, s) ==
    [kind |-> "list", filter |-> args.filter,
     order_by |-> IF args.order_by = None THEN None ELSE Some("-id,name"),
     page |-> p, size |-> s, items |-> -1, row |-> -1, typed |-> TRUE]

\* C21: Table.query with a size other than -1 sends one list request and no
\* other, with the filter, order_by, page and size it was given, and returns
\* the items of the response, the page of the table the service holds; with
\* size=-1 and no page every page request carries the filter and order_by
\* and the query returns the items of all pages, page after page.
C21_QueryDelegates ==
    /\ (QueryRuns /\ args.size # Some(-1)) =>
            /\ Len(ListRequests) <= 1
            /\ tasks[0].st \in {"sent", "ok"} =>
                    ListRequests = <<QueryRequest(args.page, args.size)>>
            /\ pc = "done" =>
                    /\ ret.results = tasks[0].body.results
                    /\ ~changed =>
                        ret.results =
                            ListBody(QueryRequest(args.page, args.size),
                                     nrows).results
    /\ (QueryRuns /\ args.size = Some(-1) /\ args.page = None
            /\ pc = "done") =>
            /\ \A k \in 1..total_calls :
                    tasks[k].rq = QueryRequest(Some(k), Some(PageSize))
            /\ Len(ListRequests) = 1 + total_calls
            /\ ret.results = PagesUpTo(total_calls)

\* A query for the second page of a table of 201 rows by descending id has
\* returned row 1.
C21_Witness ==
    /\ QueryRuns
    /\ pc = "done"
    /\ args.order_by # None
    /\ args.page = Some(2)
    /\ args.size = Some(PageSize)
    /\ args.filter = None
    /\ ret.results = <<1>>

\* The requests of the operation the service has refused.
Refused == {i \in DOMAIN tasks : tasks[i].status \notin {0, 200, 204}}

\* The exception that stands for a refusal with this status.
RefusalError(status) ==
    IF status = 400 THEN "BaserowError" ELSE "UnspecifiedBaserowError"

BadlyConfigured(cls) ==
    ~cls.table_id \/ ~cls.table_name \/ ~cls.populate_by_name

\* C23: by_id and query on a class whose table_id is no int, whose
\* table_name is no str or whose model config lacks populate_by_name raise
\* InvalidTableConfiguration, and no request is sent.
C23_InvalidConfiguration ==
    (op \in {"Table.by_id", "Table.query"} /\ pc # "idle"
        /\ BadlyConfigured(args.cls)) =>
        /\ pc = "raised"
        /\ err = "InvalidTableConfiguration"
        /\ log = <<>>
        /\ \A i \in DOMAIN tasks : tasks[i].rq = TokenAuthRequest

\* by_id on a class without populate_by_name has raised.
C23_Witness ==
    /\ op = "Table.by_id"
    /\ ~args.cls.populate_by_name
    /\ pc = "raised"
    /\ err = "InvalidTableConfiguration"

\* The page requests of list_all_table_rows that have failed.
FailedPages ==
    {k \in 1..total_calls : k \in DOMAIN tasks /\ tasks[k].st = "err"}

RequestErrors == {"BaserowError", "UnspecifiedBaserowError"}

\* C25: once a page request of list_all_table_rows has failed, the call
\* does not return: it is about to raise or has raised the error of a
\* failed page, and it has handed no result to its caller.
C25_NoPartialResult ==
    (ListAllCall /\ pc # "idle" /\ FailedPages # {}) =>
        /\ pc \in {"gather", "raised"}
        /\ pc = "gather" => ENABLED GatherRaise
        /\ pc = "raised" =>
            /\ err \in RequestErrors
            /\ \E k \in FailedPages : err = tasks[k].err
        /\ ret = NoRet

\* The first page has arrived, the second was refused, and the call raised.
C25_Witness ==
    /\ op = "list_all_table_rows"
    /\ pc = "raised"
    /\ total_calls = 2
    /\ tasks[1].st = "ok"
    /\ Len(tasks[1].body.results) = PageSize
    /\ tasks[2].st = "err"
    /\ ret = NoRet

\* C26 (as claimed): the count of the RowResponse list_all_table_rows
\* returns is the number of its results, whether or not the table changed
\* during the call.
C26_CountIsLength ==
    (op = "list_all_table_rows" /\ pc = "done") =>
        ret.count = Len(ret.results)

\* ------------------------------------------------ the process-wide client
Urls == {"u1", "u2"}
Tokens == {None, Some(""), Some("t")}
Emails == {None, Some(""), Some("e")}
Passwords == {None, Some(""), Some("p")}

\* Python truth value of an Optional[str].
Given(o) == o # None /\ o # Some("")

\* (mutant) __init__ without its second check.
Client_init_error_mixed(token, email, password) ==
    CASE ~Given(token) /\ ~Given(email) /\ ~Given(password) -> "ValueError"
      [] ~Given(token) /\ (~Given(email) \/ ~Given(password)) -> "ValueError"
      [] OTHER -> ""

\* Client.__init__: the ValueError it raises ("" if it constructs the client).
Client_init_error(token, email, password) ==
    CASE ~Given(token) /\ ~Given(email) /\ ~Given(password) -> "ValueError"
      [] Given(token) /\ (Given(email) \/ Given(password)) -> "ValueError"
      [] ~Given(token) /\ (~Given(email) \/ ~Given(password)) -> "ValueError"
      [] OTHER -> ""

\* Client.__init__: the auth method of the client it constructs.
Client_auth_method(token) ==
    IF Given(token) THEN "DATABASE_TOKEN" ELSE "JWT"

Called(name, url, e, old) ==
    [op |-> name, url |-> url, err |-> e, old_url |-> old,
     configured |-> is_configured, before |-> config]

\* GlobalClient(): __new__ raises while the class is not configured and
\* creates the instance once; __init__ initializes it until that succeeded.
GlobalClient_error ==
    IF ~is_configured
    THEN "RuntimeError"
    ELSE IF instance # None /\ The(instance).initialized
    THEN ""
    ELSE Client_init_error(config.token, config.email, config.password)

GlobalClient_instance ==
    IF ~is_configured
    THEN instance
    ELSE IF instance # None /\ The(instance).initialized
    THEN instance
    ELSE IF Client_init_error(config.token, config.email, config.password) # ""
    THEN Some([initialized |-> FALSE, url |-> ""])
    ELSE Some([initialized |-> TRUE, url |-> config.url])

\* GlobalClient.configure(url, token, email, password).
Configure ==
    \E u \in Urls, t \in Tokens, e \in Emails, p \in Passwords :
        /\ IF is_configured
           THEN /\ last' = Called("configure", u,
                                  "SingletonAlreadyConfiguredError", "")
                /\ UNCHANGED <<is_configured, config>>
           ELSE /\ config' = [url |-> u, token |-> t, email |-> e,
                              password |-> p]
                /\ is_configured' = TRUE
                /\ last' = Called("configure", u, "", "")
        /\ UNCHANGED <<instance, new_client, svcVars, clientVars, reqVars, callVars,
                       linkVars, valueVars>>

\* client_config(url, token, email, password): configure, and on a second
\* configuration PackageClientAlreadyDefinedError(global_client()._url, url).
ClientConfig ==
    \E u \in Urls, t \in Tokens, e \in Emails, p \in Passwords :
        /\ IF is_configured
           THEN /\ instance' = GlobalClient_instance
                /\ last' = IF GlobalClient_error # ""
                           THEN Called("client_config", u, GlobalClient_error, "")
                           ELSE Called("client_config", u,
                                       "PackageClientAlreadyDefinedError",
                                       The(GlobalClient_instance).url)
                /\ UNCHANGED <<is_configured, config>>
           ELSE /\ config' = [url |-> u, token |-> t, email |-> e,
                              password |-> p]
                /\ is_configured' = TRUE
                /\ last' = Called("client_config", u, "", "")
                /\ UNCHANGED instance
        /\ UNCHANGED <<new_client, svcVars, clientVars, reqVars, callVars,
                       linkVars, valueVars>>

\* Client(url, token, email, password): the arguments, the exception of
\* __init__ and the _auth_method of the client it constructed.
NewClient ==
    \E u \in Urls, t \in Tokens, e \in Emails, p \in Passwords :
        /\ new_client' = Some([url |-> u, token |-> t, email |-> e,
                           password |-> p,
                           err |-> Client_init_error(t, e, p),
                           auth_method |->
                                IF Client_init_error(t, e, p) = ""
                                THEN Client_auth_method(t) ELSE ""])
        /\ UNCHANGED <<is_configured, config, instance, last, svcVars,
                       clientVars, reqVars, callVars, linkVars, valueVars>>

\* GlobalClient(): the program asks for the process-wide client.
GetGlobalClient ==
    /\ instance' = GlobalClient_instance
    /\ last' = Called("GlobalClient", "", GlobalClient_error, "")
    /\ UNCHANGED <<is_configured, config, new_client, svcVars, clientVars,
                   reqVars, callVars, linkVars, valueVars>>

InitGlobal ==
    /\ nrows = 0
    /\ InitClient
    /\ auth_method = "DATABASE_TOKEN"
    /\ InitCall
    /\ NoLink
    /\ NoGlobal
    /\ NoValue

NextGlobal ==
    \/ Configure
    \/ ClientConfig
    \/ GetGlobalClient
    \/ NewClient

\* The process-wide client: GlobalClient and client_config.
SpecGlobal == InitGlobal /\ [][NextGlobal]_vars

ConflictErrors ==
    {"SingletonAlreadyConfiguredError", "PackageClientAlreadyDefinedError"}

\* C6 (as claimed): once the process-wide client is configured, every later
\* configure or client_config fails with a configuration-conflict error and
\* leaves the configured URL and credentials as they were.
C6_ConfiguredOnce ==
    (last.op \in {"configure", "client_config"} /\ last.configured) =>
        /\ last.err \in ConflictErrors
        /\ config = last.before


\* The two authentication modes; an argument is given when it is a
\* non-empty string.
TokenMode(token, email, password) ==
    Given(token) /\ ~Given(email) /\ ~Given(password)

LoginMode(token, email, password) ==
    ~Given(token) /\ Given(email) /\ Given(password)

\* C16: Client(url, token, email, password) constructs a client exactly
\* when the arguments name one authentication mode, and raises ValueError
\* otherwise; the client's auth method is DATABASE_TOKEN in token mode and
\* JWT in login mode.  The process-wide client is constructed from a
\* configuration of one mode only.
C16_OneAuthMode ==
    /\ new_client # None =>
            LET c == The(new_client)
            IN  /\ c.err \in {"", "ValueError"}
                /\ c.err = "" <=>
                        \/ TokenMode(c.token, c.email, c.password)
                        \/ LoginMode(c.token, c.email, c.password)
                /\ TokenMode(c.token, c.email, c.password) =>
                        c.auth_method = "DATABASE_TOKEN"
                /\ LoginMode(c.token, c.email, c.password) =>
                        c.auth_method = "JWT"
    /\ (instance # None /\ The(instance).initialized) =>
            \/ TokenMode(config.token, config.email, config.password)
            \/ LoginMode(config.token, config.email, config.password)

C16_Witness ==
    /\ new_client # None
    /\ The(new_client).err = ""
    /\ The(new_client).auth_method = "JWT"
    /\ The(new_client).token = Some("")
    /\ instance # None
    /\ The(instance).initialized

\* ------------------------------------------------------------ link fields
Callers == 1..MaxCalls

\* A RowLink: row_id and key, at least one of them set.
LinkValues ==
    {[row_id |-> Some(r), key |-> Some("k")] : r \in 1..MaxLinks}
        \cup {[row_id |-> None, key |-> Some("k")]}

RECURSIVE SeqsUpTo(_, _)
SeqsUpTo(S, n) ==
    IF n = 0
    THEN {<<>>}
    ELSE SeqsUpTo(S, n - 1)
            \cup {Append(q, x) : q \in {r \in SeqsUpTo(S, n - 1) : Len(r) = n - 1},
                                 x \in S}

\* The values of a link field: a row is linked at most once.
Roots ==
    {q \in SeqsUpTo(LinkValues, MaxLinks) :
        \A i, j \in 1..Len(q) :
            (i # j /\ q[i].row_id # None) => q[i].row_id # q[j].row_id}

\* The linked Table class: well configured with and without a client of its
\* own, and badly configured.
LinkedClasses ==
    {TableClass(TRUE, TRUE, TRUE, TRUE), TableClass(TRUE, TRUE, TRUE, FALSE),
     TableClass(FALSE, TRUE, TRUE, TRUE)}

\* The task of call c that fetches a row.
LinkTask(c, row) == [NewTask(GetRowRequest(row)) EXCEPT !.call = c]

Finished(c) == calls[c].pc \in {"done", "raised"}

\* (mutant) The row put in front of the list.
PrependRow(rsl, row) == <<row>> \o rsl

\* rsl.append(row)
AppendRow(rsl, row) == Append(rsl, row)

\* (mutant) The result is not kept.
CacheNothing(c) == None

\* self._cache = <the list call c built>
CacheList(c) == Some(c)

\* (mutant) The rows fetched before the exception are kept as the cache.
LinkRaiseCaching(cs, ts, c, rsl, e) ==
    /\ calls' = [cs EXCEPT ![c].pc = "raised", ![c].err = e, ![c].rsl = rsl]
    /\ tasks' = ts
    /\ link_cache' = IF cs[c].op = "cached_query_linked_rows"
                     THEN Some(c) ELSE link_cache
    /\ UNCHANGED <<log, headers_cache>>

\* An exception leaves call c.
LinkRaise(cs, ts, c, rsl, e) ==
    /\ calls' = [cs EXCEPT ![c].pc = "raised", ![c].err = e, ![c].rsl = rsl]
    /\ tasks' = ts
    /\ UNCHANGED <<link_cache, log, headers_cache>>

\* query_linked_rows from its i-th link on, up to the next suspension: the
\* loop ends and the list is returned (cached_query_linked_rows stores it in
\* _cache and returns _cache), or RowLink.query_linked_row raises, or by_id
\* sends its get_row request.  cs and ts hold the calls and the tasks as
\* they are when it runs.
LinkLoop(cs, ts, c, i, rsl) ==
    IF i > Len(root)
    THEN /\ link_cache' = IF cs[c].op = "cached_query_linked_rows"
                          THEN CacheList(c) ELSE link_cache
         /\ calls' = [cs EXCEPT
                ![c].pc = "done", ![c].rsl = rsl,
                ![c].ret = IF cs[c].op = "cached_query_linked_rows"
                           THEN CacheList(c) ELSE Some(c)]
         /\ tasks' = ts
         /\ UNCHANGED <<log, headers_cache>>
    ELSE IF root[i].row_id = None
    THEN LinkRaise(cs, ts, c, rsl, "ValueError")
    ELSE IF valid_configuration(linked) # ""
    THEN LinkRaise(cs, ts, c, rsl, valid_configuration(linked))
    ELSE IF req_client_error(linked) # ""
    THEN LinkRaise(cs, ts, c, rsl, req_client_error(linked))
    ELSE /\ tasks' = [ts EXCEPT
                ![c] = StartedTask(LinkTask(c, The(root[i].row_id)))]
         /\ log' = StartedLog(LinkTask(c, The(root[i].row_id)))
         /\ headers_cache' = StartedCache(LinkTask(c, The(root[i].row_id)))
         /\ calls' = [cs EXCEPT
                ![c].pc = "fetch", ![c].i = i, ![c].rsl = rsl,
                ![c].asked = Append(cs[c].asked, The(root[i].row_id))]
         /\ UNCHANGED link_cache

\* The calls are numbered in the order in which they begin.
NextToBegin(c) ==
    /\ calls[c].pc = "idle"
    /\ \A d \in Callers : d < c => calls[d].pc # "idle"

\* The calls once call c has begun as operation name.
Began(c, name) ==
    [calls EXCEPT ![c].op = name,
                  ![c].hit = link_cache # None,
                  ![c].after = {d \in Callers : Finished(d)}]

\* TableLinkField.query_linked_rows() is called.
QueryLinkedRows(c) ==
    /\ NextToBegin(c)
    /\ LinkLoop(Began(c, "query_linked_rows"), tasks, c, 1, <<>>)
    /\ UNCHANGED <<svcVars, auth_method, arrived, callVars, root, linked,
                   globalVars, valueVars>>

\* TableLinkField.cached_query_linked_rows() is called: a _cache that is
\* not None is returned at once.
CachedQueryLinkedRows(c) ==
    /\ NextToBegin(c)
    /\ IF link_cache # None
       THEN /\ calls' = [Began(c, "cached_query_linked_rows") EXCEPT
                    ![c].pc = "done", ![c].ret = link_cache]
            /\ UNCHANGED <<link_cache, tasks, log, headers_cache>>
       ELSE LinkLoop(Began(c, "cached_query_linked_rows"), tasks, c, 1, <<>>)
    /\ UNCHANGED <<svcVars, auth_method, arrived, callVars, root, linked,
                   globalVars, valueVars>>

\* by_id returns to the loop of call c.  token_auth has failed: its
\* exception goes up.
LinkAuthFailed(c) ==
    /\ calls[c].pc = "fetch"
    /\ tasks[c].st = "err"
    /\ LinkRaise(calls, tasks, c, calls[c].rsl, tasks[c].err)
    /\ UNCHANGED <<svcVars, auth_method, arrived, callVars, root, linked,
                   globalVars, valueVars>>

\* The service answers the get_row request of call c, which changes no
\* row: the exception of Client._request goes up, or the row is appended
\* and the loop goes on.
LinkResume(c) ==
    /\ calls[c].pc = "fetch"
    /\ tasks[c].st = "sent"
    /\ \E s \in Answers(tasks[c].rq, nrows) :
        LET t == Answered(tasks[c], s, nrows)
            ts == [tasks EXCEPT ![c] = t]
        IN  IF t.st = "err"
            THEN LinkRaise(calls, ts, c, calls[c].rsl, t.err)
            ELSE LinkLoop(calls, ts, c, calls[c].i + 1,
                          AppendRow(calls[c].rsl, t.body.results[1]))
    /\ UNCHANGED <<svcVars, auth_method, arrived, callVars, root, linked,
                   globalVars, valueVars>>

InitLink ==
    /\ nrows = MaxLinks
    /\ changes = 0
    /\ auth_method \in AuthMethods
    /\ headers_cache = None
    /\ tasks = [c \in Callers |-> NoTasks[0]]
    /\ log = <<>>
    /\ arrived = <<>>
    /\ InitCall
    /\ root \in Roots
    /\ linked \in LinkedClasses
    /\ link_cache = None
    /\ calls = [c \in Callers |-> NoCall]
    /\ NoGlobal
    /\ NoValue

NextLink ==
    \/ \E c \in Callers : QueryLinkedRows(c)
    \/ \E c \in Callers : CachedQueryLinkedRows(c)
    \/ AuthAnswer
    \/ \E c \in Callers : LinkAuthFailed(c)
    \/ \E c \in Callers : LinkResume(c)

\* A link field, the calls that resolve it, and the service.
SpecLink == InitLink /\ [][NextLink]_vars


\* ------------------------------------------------- claims on link fields
Begun(c) == calls[c].pc # "idle"

\* No two of the calls made so far ran at the same time.
Successive ==
    \A c, d \in Callers :
        (c # d /\ Begun(c) /\ Begun(d)) =>
            (c \in calls[d].after \/ d \in calls[c].after)

\* The rows the first n links of the field point to, in the order of the
\* links.
RowsOf(n) == [i \in 1..n |-> The(root[i].row_id)]

\* c1 and c2 are calls of cached_query_linked_rows that have returned, c2
\* called after c1 returned.
CachedTwice(c1, c2) ==
    /\ calls[c1].op = "cached_query_linked_rows"
    /\ calls[c2].op = "cached_query_linked_rows"
    /\ calls[c1].pc = "done"
    /\ calls[c2].pc = "done"
    /\ c1 \in calls[c2].after

\* C7: when cached_query_linked_rows is called twice in succession on one
\* field, both calls return the same list object, the second call fetches
\* no row, and a first call that found the cache empty fetched each linked
\* row once, so that there is one fetch per link in total.
C7_CachedTwiceFetchesOnce ==
    \A c1, c2 \in Callers :
        (Successive /\ CachedTwice(c1, c2)) =>
            /\ calls[c1].ret # None
            /\ calls[c2].ret = calls[c1].ret
            /\ calls[c2].asked = <<>>
            /\ ~calls[c1].hit =>
                    /\ calls[c1].asked = RowsOf(Len(root))
                    /\ Len(calls[c1].asked) + Len(calls[c2].asked) = Len(root)

C7_Witness ==
    \E c1, c2 \in Callers :
        /\ Successive
        /\ CachedTwice(c1, c2)
        /\ ~calls[c1].hit
        /\ Len(root) = MaxLinks
        /\ calls[c2].ret = Some(c1)

\* C8: once query_linked_rows has returned on a field, a following call of
\* cached_query_linked_rows on that field sends no request to the service.
C8_CachedAfterQuerySendsNothing ==
    \A c1, c2 \in Callers :
        (/\ Successive
         /\ calls[c1].op = "query_linked_rows"
         /\ calls[c1].pc = "done"
         /\ calls[c2].op = "cached_query_linked_rows"
         /\ c1 \in calls[c2].after) =>
            calls[c2].asked = <<>>

HasNoId(i) == root[i].row_id = None

\* The links in front of the first link without a row id.
BeforeNoId ==
    {i \in 1..Len(root) : \A j \in 1..i : ~HasNoId(j)}

\* A call of query_linked_rows that returned gave one row per link, in the
\* order of the links, each fetched by the row id of its link.
ReturnsLinkedRows(c) ==
    calls[c].pc = "done" =>
        /\ calls[c].ret = Some(c)
        /\ BeforeNoId = 1..Len(root)
        /\ calls[c].rsl = RowsOf(Len(root))
        /\ calls[c].asked = RowsOf(Len(root))

\* C9 as stated, for a linked table that is configured and has a client:
\* query_linked_rows returns one row per link, in the order of the links,
\* each fetched by the row id of its link; if a link has no row id the call
\* fails with a ValueError and returns no list.
C9_ResolveOrValueError ==
    \A c \in Callers :
        (/\ calls[c].op = "query_linked_rows"
         /\ valid_configuration(linked) = ""
         /\ req_client_error(linked) = "") =>
            /\ ReturnsLinkedRows(c)
            /\ (Finished(c) /\ \E i \in 1..Len(root) : HasNoId(i)) =>
                    /\ calls[c].pc = "raised"
                    /\ calls[c].ret = None
                    /\ calls[c].err = "ValueError"

\* C9 amended: query_linked_rows returns one row per link, in the order of
\* the links, each fetched by the row id of its link; if a link has no row
\* id the call returns no list: it fails with a ValueError once the rows of
\* all the links in front of the first such link are fetched, and with the
\* error of the fetch that failed otherwise.
C9_ResolveOrFirstFailure ==
    \A c \in Callers :
        calls[c].op = "query_linked_rows" =>
            /\ ReturnsLinkedRows(c)
            /\ (Finished(c) /\ \E i \in 1..Len(root) : HasNoId(i)) =>
                    /\ calls[c].pc = "raised"
                    /\ calls[c].ret = None
                    /\ Len(calls[c].rsl) <= Cardinality(BeforeNoId)
                    /\ calls[c].rsl = RowsOf(Len(calls[c].rsl))
                    /\ IF Len(calls[c].rsl) = Cardinality(BeforeNoId)
                       THEN calls[c].err = "ValueError"
                       ELSE calls[c].err \notin {"", "ValueError"}

C9_Witness ==
    \E c \in Callers :
        /\ calls[c].op = "query_linked_rows"
        /\ calls[c].pc = "raised"
        /\ calls[c].err = "ValueError"
        /\ Len(root) = MaxLinks
        /\ HasNoId(Len(root))
        /\ Len(calls[c].asked) = Len(root) - 1

\* The requests that wait for a token_auth call of their own.
LoggingIn == {c \in DOMAIN tasks : tasks[c].st = "auth"}

\* C27 (as claimed): of the requests started at the same time on a JWT
\* client without a cached header, at most one calls token-auth.
C27_SingleLogin ==
    auth_method = "JWT" => Cardinality(LoggingIn) <= 1

\* c1 and c2 are calls of cached_query_linked_rows that found the cache
\* empty, ran at the same time and have both returned.
CachedTogether(c1, c2) ==
    /\ c1 # c2
    /\ calls[c1].op = "cached_query_linked_rows"
    /\ calls[c2].op = "cached_query_linked_rows"
    /\ ~calls[c1].hit
    /\ ~calls[c2].hit
    /\ calls[c1].pc = "done"
    /\ calls[c2].pc = "done"
    /\ c1 \notin calls[c2].after
    /\ c2 \notin calls[c1].after

\* C28 (as claimed): calls of cached_query_linked_rows that run at the same
\* time on a field with an empty cache fetch each linked row once between
\* them and return the same list object.
C28_ConcurrentCachedOnce ==
    \A c1, c2 \in Callers :
        CachedTogether(c1, c2) =>
            /\ calls[c1].ret = calls[c2].ret
            /\ Len(calls[c1].asked) + Len(calls[c2].asked) <= Len(root)

Cached(c) == calls[c].op = "cached_query_linked_rows"

\* Call c fails in this step.
Fails(c) == calls[c].pc # "raised" /\ calls'[c].pc = "raised"

\* The list call d built holds the row of every link, in link order.
FullList(d) ==
    /\ calls[d].pc = "done"
    /\ BeforeNoId = 1..Len(root)
    /\ calls[d].rsl = RowsOf(Len(root))

\* C29: a call of cached_query_linked_rows that fails leaves the cache as it
\* is, so an empty cache stays empty; the cache and the list a call returns
\* are never a partial list; and a call that finds the cache empty asks for
\* the linked rows from the first link on.
C29_FailureKeepsCacheEmpty ==
    /\ [][\A c \in Callers :
            (Cached(c) /\ Fails(c)) => link_cache' = link_cache]_vars
    /\ [](link_cache # None => FullList(The(link_cache)))
    /\ [](\A c \in Callers :
            (Cached(c) /\ calls[c].pc = "done") =>
                calls[c].ret # None /\ FullList(The(calls[c].ret)))
    /\ [](\A c \in Callers :
            (Cached(c) /\ ~calls[c].hit /\ Begun(c)) =>
                /\ Len(calls[c].asked) <= Cardinality(BeforeNoId)
                /\ calls[c].asked = RowsOf(Len(calls[c].asked))
                /\ calls[c].pc = "done" => calls[c].asked = RowsOf(Len(root)))

\* The first call failed at the second of two links and left the cache
\* empty; the second call, made after it, fetched both rows.
C29_Witness ==
    /\ Len(root) = 2
    /\ BeforeNoId = {1, 2}
    /\ Cached(1)
    /\ calls[1].pc = "raised"
    /\ calls[1].rsl = <<The(root[1].row_id)>>
    /\ Cached(2)
    /\ 1 \in calls[2].after
    /\ ~calls[2].hit
    /\ calls[2].pc = "done"
    /\ calls[2].asked = RowsOf(2)
    /\ link_cache = Some(2)

\* ------------------------------------------- RowLink and SelectEntry values
\* SingleSelectField is a SelectEntry that is a BaserowField as well.
Classes == {"RowLink", "SelectEntry", "SingleSelectField"}

Ids == {None} \cup {Some(n) : n \in 0..MaxId}

\* The key of a RowLink is a string, the value of a SelectEntry a member of
\* the enum the entry is bound to.
Keys == {"k1", "k2"}
Members == {"A", "B"}

ValuesOf(cls) ==
    {None} \cup {Some(v) : v \in IF cls = "RowLink" THEN Keys ELSE Members}

\* member.value
EnumValue(m) == IF m = "A" THEN "a" ELSE "b"

\* id stands for row_id and entry_id, value for key and value.
Object(cls, id, value) == [cls |-> cls, id |-> id, value |-> value]


IntResult(n) == [tag |-> "int", int |-> n, str |-> "", err |-> ""]
StrResult(s) == [tag |-> "str", int |-> 0, str |-> s, err |-> ""]
Raised(e) == [tag |-> "raise", int |-> 0, str |-> "", err |-> e]

\* (mutant) The validator accepts every object.
id_or_value_unchecked(o) == ""

\* id_or_value_must_be_set: the exception the validator raises ("" for
\* none).
id_or_value_must_be_set(o) ==
    IF o.id = None /\ o.value = None THEN "ValueError" ELSE ""

\* (mutant) The id is used when it is truthy.
RowLink_serialize_truthy(o) ==
    IF o.id # None /\ The(o.id) # 0
    THEN IntResult(The(o.id))
    ELSE IF o.value # None
    THEN StrResult(The(o.value))
    ELSE Raised("ValueError")

RowLink_serialize(o) ==
    IF o.id # None
    THEN IntResult(The(o.id))
    ELSE IF o.value # None
    THEN StrResult(The(o.value))
    ELSE Raised("ValueError")

SelectEntry_serialize(o) ==
    IF o.id # None
    THEN IntResult(The(o.id))
    ELSE IF o.value # None
    THEN StrResult(EnumValue(The(o.value)))
    ELSE Raised("ValueError")

serialize(o) ==
    IF o.cls = "RowLink" THEN RowLink_serialize(o) ELSE SelectEntry_serialize(o)

\* RowLink(...) and SelectEntry(...): the validator runs after the fields
\* are set, and no object comes into being when it raises.
Construct ==
    \E cls \in Classes, id \in Ids :
        \E value \in ValuesOf(cls) :
            LET o == Object(cls, id, value)
            IN  /\ obj' = IF id_or_value_must_be_set(o) = "" THEN Some(o) ELSE None
                /\ out' = IF id_or_value_must_be_set(o) = ""
                          THEN <<>>
                          ELSE <<[op |-> "init", of |-> o,
                                  result |-> Raised(id_or_value_must_be_set(o))]>>
                /\ pending' = <<>>
    /\ UNCHANGED <<fileVars, filterVars, svcVars, clientVars, reqVars, callVars, linkVars, globalVars>>

\* An attribute of the object is assigned: the models do not validate
\* assignments.
SetId ==
    /\ obj # None
    /\ \E id \in Ids : obj' = Some([The(obj) EXCEPT !.id = id])
    /\ UNCHANGED <<out, pending, fileVars, filterVars, svcVars, clientVars, reqVars, callVars, linkVars,
                   globalVars>>

SetValue ==
    /\ obj # None
    /\ \E value \in ValuesOf(The(obj).cls) :
            obj' = Some([The(obj) EXCEPT !.value = value])
    /\ UNCHANGED <<out, pending, fileVars, filterVars, svcVars, clientVars, reqVars, callVars, linkVars,
                   globalVars>>

\* The object is serialized (model_dump).
Serialize ==
    /\ obj # None
    /\ out' = <<[op |-> "serialize", of |-> The(obj),
                 result |-> serialize(The(obj))]>>
    /\ UNCHANGED <<obj, pending, fileVars, filterVars, svcVars, clientVars, reqVars, callVars, linkVars,
                   globalVars>>

\* BaserowField.register_pending_change
register_pending_change(l, description) == Append(l, description)

\* (mutant) set leaves the option id as it is.
SingleSelectField_set_keeps_id(o, member) ==
    [o EXCEPT !.value = Some(member)]

\* SingleSelectField.set: the entry after the call.
SingleSelectField_set(o, member) ==
    [o EXCEPT !.id = None, !.value = Some(member)]

\* f"set SingleSelect to '{instance.value}'"
SetDescription(member) ==
    [change |-> "set SingleSelect to", what |-> EnumValue(member)]

\* field.set(member) on a SingleSelectField.
SelectSet(member) ==
    /\ obj # None
    /\ The(obj).cls = "SingleSelectField"
    /\ Len(pending) < MaxPending
    /\ obj' = Some(SingleSelectField_set(The(obj), member))
    /\ pending' = register_pending_change(pending, SetDescription(member))
    /\ UNCHANGED <<out, fileVars, filterVars, svcVars, clientVars, reqVars, callVars, linkVars,
                   globalVars>>

InitValue ==
    /\ nrows = 0
    /\ InitClient
    /\ InitCall
    /\ NoLink
    /\ NoGlobal
    /\ NoValue

NextValue ==
    \/ Construct
    \/ SetId
    \/ SetValue
    \/ Serialize
    \/ \E member \in Members : SelectSet(member)

\* One RowLink or SelectEntry, built, changed and serialized.
SpecValue == InitValue /\ [][NextValue]_vars


\* ------------------------------------------------ claims on field values
\* The text of a value: the key itself, the value of the enum member.
TextOf(o) ==
    IF o.cls = "RowLink" THEN The(o.value) ELSE EnumValue(The(o.value))

Serialized == out # <<>> /\ out[1].op = "serialize"

\* C10: a RowLink and a SelectEntry serialize to their id whenever the id
\* is set, whether or not a value is set too, to their value when only the
\* value is set, and serialization fails with a ValueError when neither is
\* set.
C10_SerializeIdFirst ==
    Serialized =>
        LET o == out[1].of
            r == out[1].result
        IN  /\ o.id # None => r = IntResult(The(o.id))
            /\ (o.id = None /\ o.value # None) => r = StrResult(TextOf(o))
            /\ (o.id = None /\ o.value = None) => r = Raised("ValueError")

C10_Witness ==
    /\ Serialized
    /\ out[1].of.cls = "RowLink"
    /\ out[1].of.id = Some(0)
    /\ out[1].of.value # None
    /\ out[1].result = IntResult(0)

HasIdOrValue(o) == o.id # None \/ o.value # None

\* C11: every RowLink and SelectEntry that construction or
\* SingleSelectField.set yields carries an id or a value: construction
\* with neither raises ValueError and yields no object, and set leaves the
\* value set.
C11_IdOrValueKept ==
    [][(Construct \/ \E member \in Members : SelectSet(member)) =>
            /\ obj' # None => HasIdOrValue(The(obj'))
            /\ (obj' = None /\ out' # <<>>) =>
                    /\ ~HasIdOrValue(out'[1].of)
                    /\ out'[1].result = Raised("ValueError")]_vars

C11_Witness ==
    /\ obj # None
    /\ The(obj).cls = "SingleSelectField"
    /\ The(obj).id = None
    /\ The(obj).value = Some("B")
    /\ pending # <<>>
    /\ out # <<>>
    /\ out[1].op = "serialize"
    /\ out[1].of.id # None

\* C20: a step field.set(member) of a SingleSelectField, with or without an
\* option id before it, leaves a field that serializes to the value of the
\* member, registers exactly one pending change, and sends no request.
C20_SetSerializesValue ==
    [][\A member \in Members :
        SelectSet(member) =>
            /\ serialize(The(obj')) = StrResult(EnumValue(member))
            /\ Len(pending') = Len(pending) + 1
            /\ SubSeq(pending', 1, Len(pending)) = pending
            /\ UNCHANGED <<reqVars, clientVars, svcVars>>]_vars

\* The field was serialized after set(A), with the change still pending.
C20_Witness ==
    /\ obj # None
    /\ The(obj) = Object("SingleSelectField", None, Some("A"))
    /\ pending # <<>>
    /\ pending[Len(pending)] = SetDescription("A")
    /\ out # <<>>
    /\ out[1] = [op |-> "serialize", of |-> The(obj),
                 result |-> StrResult("a")]

\* ------------------------------------------------- a record and its fields
\* A row of a table with a file field (files) and a single select field
\* (obj), and the coroutines that change the fields and write the record.

\* A file descriptor, by its original_name.
File(original_name) == [original_name |-> original_name]

Names == {None, Some("n")}

UploadKinds == {"upload_file", "upload_file_via_url"}

\* client.upload_file(file) and client.upload_file_via_url(url): one request
\* of the client.
UploadRequest(kind) == Request(kind, None, None, None, -1, -1, TRUE)

\* The descriptor the service answers an upload with.
Uploaded == File("uploaded")

\* if name is not None: new_file.original_name = name
Renamed(new_file, name) ==
    IF name # None
    THEN [new_file EXCEPT !.original_name = The(name)]
    ELSE new_file

\* (mutant) The new file is put in front.
FileField_prepend(r, new_file) == <<new_file>> \o r

\* self.root.append(new_file)
FileField_append(r, new_file) == Append(r, new_file)

\* f"file '{new_file.original_name}' added" and
\* f"file from url '{url}' added"
AddedDescription(kind, new_file) ==
    IF kind = "upload_file"
    THEN [change |-> "file added", what |-> new_file.original_name]
    ELSE [change |-> "file from url added", what |-> "url"]

\* FileField.append_file / append_file_from_url up to the upload: without a
\* client of its own the field asks for the process-wide one.
AppendFile ==
    \E kind \in UploadKinds, name \in Names, flag \in BOOLEAN,
       own \in BOOLEAN :
        /\ pc = "idle"
        /\ Len(files) < MaxFiles
        /\ op' = IF kind = "upload_file"
                 THEN "append_file" ELSE "append_file_from_url"
        /\ args' = [NoArgs EXCEPT !.name = name, !.register = flag,
                                  !.own_client = own]
        /\ changed' = FALSE
        /\ arrived' = <<>>
        /\ IF own
           THEN /\ Await(UploadRequest(kind), "upload")
                /\ UNCHANGED <<instance, last>>
           ELSE /\ instance' = GlobalClient_instance
                /\ last' = Called("GlobalClient", "", GlobalClient_error, "")
                /\ IF GlobalClient_error # ""
                   THEN Raise(GlobalClient_error)
                   ELSE Await(UploadRequest(kind), "upload")
        /\ UNCHANGED <<svcVars, auth_method, count, total_calls, linkVars,
                       is_configured, config, new_client, valueVars>>

\* The upload returned: the descriptor is renamed and appended, and the
\* change is registered unless the caller turned that off.
AppendResume ==
    /\ pc = "upload"
    /\ ~Pending(tasks[0])
    /\ IF tasks[0].st = "err"
       THEN /\ Raise(tasks[0].err)
            /\ UNCHANGED fileVars
       ELSE LET new_file == Renamed(Uploaded, args.name)
            IN  /\ files' = FileField_append(files, new_file)
                /\ file_pending' =
                        IF args.register
                        THEN register_pending_change(
                                file_pending,
                                AddedDescription(tasks[0].rq.kind, new_file))
                        ELSE file_pending
                /\ Return(NoneResult)
    /\ UNCHANGED <<svcVars, auth_method, arrived, op, args, count, total_calls,
                   changed, linkVars, globalVars, obj, out, pending,
                   filterVars>>

ClearDescription == [change |-> "remove all files in field", what |-> ""]

\* FileField.clear: `self = FileField(root=[])` binds the name self to a new,
\* empty field; that one gets the pending change and is dropped when the
\* method returns.  The result is the field the method was called on.
FileField_clear(field) ==
    LET self == [root |-> <<>>,
                 pending |-> register_pending_change(<<>>, ClearDescription)]
    IN  field

\* field.clear() on the file field of the record.
FileClear ==
    /\ pc = "idle"
    /\ op' = "FileField.clear"
    /\ args' = NoArgs
    /\ files' = FileField_clear([root |-> files,
                                 pending |-> file_pending]).root
    /\ file_pending' = FileField_clear([root |-> files,
                                        pending |-> file_pending]).pending
    /\ Return(NoneResult)
    /\ UNCHANGED <<svcVars, auth_method, arrived, count, total_calls, changed,
                   linkVars, globalVars, obj, out, pending,
                   filterVars>>

\* The row of the record.
RecordRow == 1

\* Client.update_row(table_id, row_id, data, user_field_names)
UpdateRowRequest(row) == Request("update_row", None, None, None, -1, row, TRUE)

\* (mutant) The list is left as it is.
changes_kept(l) == l

\* BaserowField.changes_applied: self._pending_changes = []
changes_applied(l) == <<>>

\* Table.update(): the record is written with update_row.
Update ==
    /\ pc = "idle"
    /\ op' = "Table.update"
    /\ args' = [NoArgs EXCEPT !.row = RecordRow]
    /\ changed' = FALSE
    /\ arrived' = <<>>
    /\ Await(UpdateRowRequest(RecordRow), "update")
    /\ UNCHANGED <<svcVars, auth_method, count, total_calls, linkVars,
                   globalVars, valueVars>>

\* update_row returned: once the row is written, every field value of the
\* record is told that its changes are applied.
UpdateResume ==
    /\ pc = "update"
    /\ ~Pending(tasks[0])
    /\ IF tasks[0].st = "err"
       THEN /\ Raise(tasks[0].err)
            /\ UNCHANGED <<pending, file_pending>>
       ELSE /\ pending' = changes_applied(pending)
            /\ file_pending' = changes_applied(file_pending)
            /\ Return(NoneResult)
    /\ UNCHANGED <<svcVars, auth_method, arrived, op, args, count, total_calls,
                   changed, linkVars, globalVars, obj, out, files,
                   filterVars>>

\* The configuration of the process-wide client that fits the client.
ConfigOf(method) ==
    IF method = "DATABASE_TOKEN"
    THEN [url |-> "u1", token |-> Some("t"), email |-> None,
          password |-> None]
    ELSE [url |-> "u1", token |-> None, email |-> Some("e"),
          password |-> Some("p")]

\* The record as Table.by_id returned it: a select entry with an id, and a
\* file field with no file or one.
InitRecord ==
    /\ nrows = RecordRow
    /\ InitClient
    /\ InitCall
    /\ NoLink
    /\ is_configured \in BOOLEAN
    /\ config \in {[url |-> "", token |-> None, email |-> None,
                    password |-> None], ConfigOf(auth_method)}
    /\ is_configured <=> config = ConfigOf(auth_method)
    /\ instance = None
    /\ last = [op |-> "", url |-> "", err |-> "", old_url |-> "",
               configured |-> FALSE,
               before |-> [url |-> "", token |-> None, email |-> None,
                           password |-> None]]
    /\ new_client = None
    /\ obj = Some(Object("SingleSelectField", Some(0), Some("A")))
    /\ out = <<>>
    /\ pending = <<>>
    /\ files \in {<<>>, <<File("f0")>>}
    /\ file_pending = <<>>
    /\ filters = <<>>
    /\ fret = 0
    /\ fcalls = <<>>

NextRecord ==
    \/ AppendFile
    \/ AppendResume
    \/ FileClear
    \/ \E member \in Members : SelectSet(member)
    \/ Update
    \/ UpdateResume
    \/ AuthAnswer
    \/ Answer
    \/ Finish

\* A record, the changes made to its field values, and its updates.
SpecRecord == InitRecord /\ [][NextRecord]_vars

\* ------------------------------------------------- claims about the record
IsPrefix(s, t) == Len(s) <= Len(t) /\ SubSeq(t, 1, Len(s)) = s

\* The upload of the running append went through the client and succeeded.
UploadedThroughClient ==
    /\ tasks[0].rq.kind \in UploadKinds
    /\ tasks[0].status = 200
    /\ \E k \in 1..Len(log) : log[k].rq = tasks[0].rq

C18_ClearEmptiesField ==
    (op = "FileField.clear" /\ pc = "done") =>
        /\ files = <<>>
        /\ file_pending # <<>>

\* Table.update returns to its caller.
UpdateReturns == op = "Table.update" /\ pc = "update" /\ pc' = "done"

\* C19: the pending changes of a field value only grow, and stay as they
\* are when an update fails, until an update of the record has written the
\* row; when that update returns, every field value of the record has an
\* empty list of pending changes.
C19_PendingUntilUpdate ==
    /\ [][(~IsPrefix(pending, pending')
            \/ ~IsPrefix(file_pending, file_pending')) => UpdateReturns]_vars
    /\ [][UpdateReturns =>
            /\ tasks[0].rq = UpdateRowRequest(RecordRow)
            /\ tasks[0].status = 200
            /\ pending' = <<>>
            /\ file_pending' = <<>>]_vars

\* An update has returned after a set on the select field and an append to
\* the file field, and nothing is pending.
C19_Witness ==
    /\ op = "Table.update"
    /\ pc = "done"
    /\ The(obj).id = None
    /\ Len(files) = 2
    /\ files[2] = File("uploaded")
    /\ pending = <<>>
    /\ file_pending = <<>>

\* ------------------------------------------------------------------ filters
\* The builder methods of Filter and the FilterMode each of them uses.
Methods ==
    {"equals", "not_equals", "contains", "does_not_contain", "contain_word",
     "does_not_contain_word", "length_is_lower_than", "is_empty",
     "is_not_empty"}

ModeOf(method) ==
    CASE method = "equals" -> "EQUALS"
      [] method = "not_equals" -> "EQUALS_NOT"
      [] method = "contains" -> "CONTAINS"
      [] method = "does_not_contain" -> "DOES_NOT_CONTAIN"
      [] method = "contain_word" -> "CONTAIN_WORD"
      [] method = "does_not_contain_word" -> "DOES_NOT_CONTAIN_WORD"
      [] method = "length_is_lower_than" -> "LENGTH_IS_LOWER_THAN"
      [] method = "is_empty" -> "IS_EMPTY"
      [] method = "is_not_empty" -> "IS_NOT_EMPTY"

\* is_empty and is_not_empty take no value and set None.
TakesValue(method) == method \notin {"is_empty", "is_not_empty"}

FilterFields == {"name"}
FilterValues == {None, Some("v")}

Condition(field, mode, value) ==
    [field |-> field, mode |-> mode, value |-> value]

\* AndFilter() and OrFilter(): the operator is the default of the class,
\* the conditions a list of the instance's own.
FilterClasses == {"AndFilter", "OrFilter"}

NewFilter(cls) ==
    [cls |-> cls,
     operator |-> IF cls = "AndFilter" THEN "AND" ELSE "OR",
     conditions |-> <<>>]

\* (mutant) The method builds a new filter and returns that one.
Filter_build_copy(fs, self, method, field, value) ==
    [filters |-> Append(fs,
                    [fs[self] EXCEPT
                        !.conditions = Append(@, Condition(field,
                                                 ModeOf(method), value))]),
     returns |-> Len(fs) + 1]

\* A builder method: self.conditions.append(Condition(...)); return self.
Filter_build(fs, self, method, field, value) ==
    [filters |-> [fs EXCEPT
                    ![self].conditions = Append(@, Condition(field,
                                                  ModeOf(method), value))],
     returns |-> self]

\* The next call of a chain, made on the filter the last call returned.
Build ==
    \E method \in Methods, field \in FilterFields, value \in FilterValues :
        /\ Len(fcalls) < MaxConditions
        /\ ~TakesValue(method) => value = None
        /\ filters' = Filter_build(filters, fret, method, field, value).filters
        /\ fret' = Filter_build(filters, fret, method, field, value).returns
        /\ fcalls' = Append(fcalls, [method |-> method, field |-> field,
                                     value |-> value])
        /\ UNCHANGED <<obj, out, pending, fileVars, svcVars, clientVars,
                       reqVars, callVars, linkVars, globalVars>>

\* The program drops the filter and makes a new one.
NewChain ==
    \E cls \in FilterClasses :
        /\ fcalls # <<>>
        /\ filters' = <<NewFilter(cls)>>
        /\ fret' = 1
        /\ fcalls' = <<>>
        /\ UNCHANGED <<obj, out, pending, fileVars, svcVars, clientVars,
                       reqVars, callVars, linkVars, globalVars>>

InitFilter ==
    /\ nrows = 0
    /\ InitClient
    /\ auth_method = "DATABASE_TOKEN"
    /\ InitCall
    /\ NoLink
    /\ NoGlobal
    /\ obj = None
    /\ out = <<>>
    /\ pending = <<>>
    /\ files = <<>>
    /\ file_pending = <<>>
    /\ \E cls \in FilterClasses : filters = <<NewFilter(cls)>>
    /\ fret = 1
    /\ fcalls = <<>>

NextFilter ==
    \/ Build
    \/ NewChain

\* A filter and the chain of builder calls made on it.
SpecFilter == InitFilter /\ [][NextFilter]_vars

\* The comparison mode of each builder method.
ModeNamed(method) ==
    CASE method = "equals" -> "EQUALS"
      [] method = "not_equals" -> "EQUALS_NOT"
      [] method = "contains" -> "CONTAINS"
      [] method = "does_not_contain" -> "DOES_NOT_CONTAIN"
      [] method = "contain_word" -> "CONTAIN_WORD"
      [] method = "does_not_contain_word" -> "DOES_NOT_CONTAIN_WORD"
      [] method = "length_is_lower_than" -> "LENGTH_IS_LOWER_THAN"
      [] method = "is_empty" -> "IS_EMPTY"
      [] method = "is_not_empty" -> "IS_NOT_EMPTY"

\* C24: after a chain of k builder calls the filter the program made is the
\* one the last call returned, no other filter has come into being, its
\* conditions are the k conditions of the calls in call order, each with the
\* mode of its method, and its operator is AND for an AndFilter and OR for
\* an OrFilter.
C24_BuilderChain ==
    /\ fret \in {0, 1}
    /\ Len(filters) = fret
    /\ fret = 1 =>
        /\ Len(filters[1].conditions) = Len(fcalls)
        /\ \A k \in 1..Len(fcalls) :
                filters[1].conditions[k] =
                    [field |-> fcalls[k].field,
                     mode |-> ModeNamed(fcalls[k].method),
                     value |-> fcalls[k].value]
        /\ filters[1].operator =
                (IF filters[1].cls = "AndFilter" THEN "AND" ELSE "OR")

\* An OrFilter after .contains("name", "v").is_empty("name").
C24_Witness ==
    /\ fret = 1
    /\ filters[1].cls = "OrFilter"
    /\ filters[1].operator = "OR"
    /\ filters[1].conditions =
            <<Condition("name", "CONTAINS", Some("v")),
              Condition("name", "IS_EMPTY", None)>>
====
